---- MODULE Spec2Model ----
(***************************************************************************)
(* PriorBaseDQN (policies/policy_PriorityBaseDQN.py): a DQN policy with a  *)
(* prioritized replay buffer, a live and a target network, softmax or      *)
(* epsilon-greedy action selection, periodic target sync and epsilon decay. *)
(*                                                                         *)
(* Numbers.  Rewards, Q-values, losses and r_sum are integers in           *)
(* hundredths (1.0 is 100).  Priorities are integers in millionths.        *)
(* epsilon is an exact decimal: the sequence <<d0, d1, ..., dn>> stands    *)
(* for d0.d1...dn (d0 a natural number, the others digits), so that        *)
(* 2.0 * 0.9^10 is computed exactly; Python's doubles round where this     *)
(* model does not.                                                         *)
(***************************************************************************)
EXTENDS Integers, Sequences, FiniteSets, TLC

\* ---------------------------------------------------------------- bounds
BUFFER_SIZE == 3     \* capacity of the replay buffer in the model (6000 in the code)
BatchSize == 2       \* batch_size in the model (96 in the code)
MaxRSum == 200       \* a run is followed while r_sum is at most this
MaxSamples == 1      \* a run is followed while num_of_samples is at most this
MaxDecays == 10      \* decay-due learn calls before money-time, in the runs on epsilon
FewDecays == 1       \* the same, in the other runs
FewStored == 1       \* transitions stored at once, in the runs that do not fill the buffer
MaxRound == 101      \* the last round, in the runs that go round by round
GameDuration == 5000 \* game_duration of the run (set by the base policy)
ScoreScope == 1000   \* score_scope of the run (set by the base policy)

\* ------------------------------------------------------- program constants
GAMMA == 75              \* 0.75, in hundredths
SaveModelRound == 250
EpsilonDecayTenths == 9  \* epsilon_decay = 0.90
LogWindow == 100
DecayWindow == 200
PrioritizedReplayEps == 1 \* 1e-6, in millionths
InitialPriority == 1000000 \* 1.0, in millionths

EPSILON == <<2>>         \* 2.0
MIN_EPSILON == <<0, 3, 3>> \* 0.33
Zero == <<0>>            \* the int 0 that act assigns to epsilon

None == "None"
PolicyACTIONS == <<"L", "R", "F">>  \* bp.Policy.ACTIONS, in their fixed order
ActionIdx == 0 .. (Len(PolicyACTIONS) - 1)
RawStates == {"A", "B"}       \* raw game states handed over by the engine
Weights == {0, 1}             \* weight vectors the networks take

\* ------------------------------------------------------------- decimals
RECURSIVE DecTrim(_)
DecTrim(x) ==
    IF Len(x) > 1 /\ x[Len(x)] = 0 THEN DecTrim(SubSeq(x, 1, Len(x) - 1)) ELSE x

DecPad(x, n) == [i \in 1 .. n |-> IF i <= Len(x) THEN x[i] ELSE 0]

\* x < y
DecLt(x, y) ==
    LET n == IF Len(x) > Len(y) THEN Len(x) ELSE Len(y)
        a == DecPad(x, n)
        b == DecPad(y, n)
    IN  \E i \in 1 .. n : a[i] < b[i] /\ \A j \in 1 .. (i - 1) : a[j] = b[j]

DecLeq(x, y) == ~DecLt(y, x)

DecPositive(x) == DecLt(Zero, x)

\* x * k for a small natural k, digit by digit from the right with carry
RECURSIVE DecMulCarry(_, _, _)
DecMulCarry(x, k, carry) ==
    IF Len(x) = 1 THEN << x[1] * k + carry >>
    ELSE LET v == x[Len(x)] * k + carry
         IN  Append(DecMulCarry(SubSeq(x, 1, Len(x) - 1), k, v \div 10), v % 10)

\* x / 10: the units digit of the integer part becomes the first decimal
DecDiv10(x) == << x[1] \div 10, x[1] % 10 >> \o Tail(x)

\* x * (tenths / 10)
DecMulTenths(x, tenths) == DecTrim(DecDiv10(DecMulCarry(x, tenths, 0)))

\* Python's max(a, b): a unless b is greater
DecMax(a, b) == IF DecLt(a, b) THEN b ELSE a


\* --------------------------------------------------------------- state
VARIABLES
    policy_args,          \* the arguments as cast_string_args returns them
    hyper,                \* attributes set once by cast_string_args / the base policy
    epsilon,              \* self.epsilon
    use_softmax_sampling, \* self.use_softmax_sampling
    r_sum,                \* self.r_sum
    sum_of_loss,          \* self.sum_of_loss
    num_of_samples,       \* self.num_of_samples
    model,                \* weights of self.model (the live network)
    old_model,            \* weights of self.old_model (the target network)
    memory,               \* self.memory: the stored transitions, oldest first
    running,              \* FALSE once a call has ended in an uncaught exception
    call,                 \* the call made last: its arguments and what it did
    money_time,           \* an act call with round > game_duration - score_scope was made
    decays,               \* decay-due learn calls that returned before money-time
    window                \* rewards passed to learn: inner, in the calls since the last
                          \* one with round % 100 = 0; edge, in that one

vars == << policy_args, hyper, epsilon, use_softmax_sampling, r_sum, sum_of_loss,
           num_of_samples, model, old_model, memory, running, call, money_time,
           decays, window >>

\* ------------------------------------------------- external collaborators
\* state_proc.get_state_repr: the encoder, a deterministic map of raw states
get_state_repr(s) == IF s = "A" THEN 1 ELSE 2

\* model.predict / old_model.predict: the Q-values of a state under weights w
Predict(w, s) == [a \in ActionIdx |-> 100 * (((a + 1) * (2 * w + s)) % 3)]

\* np.amax over the action axis
AMax(q) == CHOOSE v \in {q[a] : a \in ActionIdx} : \A a \in ActionIdx : q[a] <= v

\* np.argmax over the action axis: the first index holding the maximum
ArgMax(q) ==
    CHOOSE a \in ActionIdx :
        /\ q[a] = AMax(q)
        /\ \A b \in ActionIdx : b < a => q[b] < q[a]

Abs(x) == IF x < 0 THEN -x ELSE x

RECURSIVE SumOver(_, _)
SumOver(f, S) ==
    IF S = {} THEN 0
    ELSE LET a == CHOOSE x \in S : TRUE IN f[a] + SumOver(f, S \ {a})

\* PrioritizedReplayBuffer: priority a new transition gets (the current maximum)
MaxPriority(mem) ==
    IF mem = << >> THEN InitialPriority
    ELSE CHOOSE p \in {mem[k].priority : k \in 1 .. Len(mem)} :
             \A k \in 1 .. Len(mem) : mem[k].priority <= p

BufferAdd_EvictsNewest(mem, tr) ==
    LET e == [tr EXCEPT !.priority = MaxPriority(mem)]
    IN  IF Len(mem) < BUFFER_SIZE THEN Append(mem, e)
        ELSE Append(SubSeq(mem, 1, Len(mem) - 1), e)

\* PrioritizedReplayBuffer.add: evicts the oldest entry when at capacity
BufferAdd(mem, tr) ==
    LET e == [tr EXCEPT !.priority = MaxPriority(mem)]
    IN  IF Len(mem) < BUFFER_SIZE THEN Append(mem, e) ELSE Append(Tail(mem), e)

\* PrioritizedReplayBuffer.update_priorities: a later write to an index wins
UpdatePriorities(mem, idx, prios) ==
    [k \in 1 .. Len(mem) |->
        IF \E i \in 1 .. Len(idx) : idx[i] = k
        THEN LET i == CHOOSE i \in 1 .. Len(idx) :
                          idx[i] = k /\ \A j \in 1 .. Len(idx) : idx[j] = k => j <= i
             IN  [mem[k] EXCEPT !.priority = prios[i]]
        ELSE mem[k]]

\* ----------------------------------------------------------- the policy
\* cast_string_args: epsilon and gamma come from the arguments or the defaults
\* float() of an argument string, as an exact decimal and in hundredths
FloatDec(str) ==
    CASE str = "2.0" -> <<2>>
      [] str = "0.5" -> <<0, 5>>
      [] str = "0.1" -> <<0, 1>>
      [] str = "0" -> <<0>>
FloatHundredths(str) ==
    CASE str = "0.75" -> 75
      [] str = "0.5" -> 50

CastEpsilon(args) ==
    IF "epsilon" \in DOMAIN args THEN FloatDec(args["epsilon"]) ELSE EPSILON
CastGamma(args) ==
    IF "gamma" \in DOMAIN args THEN FloatHundredths(args["gamma"]) ELSE GAMMA

\* round > self.game_duration - self.score_scope
InMoneyTime(round) == round > hyper.game_duration - hyper.score_scope

Transition_OneBasedAction(prev_state, prev_action, reward, new_state) ==
    [prev |-> get_state_repr(prev_state),
     action |-> CHOOSE i \in 1 .. Len(PolicyACTIONS) : PolicyACTIONS[i] = prev_action,
     reward |-> reward,
     new |-> get_state_repr(new_state),
     done |-> 0,
     priority |-> 0]

\* the tuple act hands to memory.add
Transition(prev_state, prev_action, reward, new_state) ==
    [prev |-> get_state_repr(prev_state),
     action |-> (CHOOSE i \in 1 .. Len(PolicyACTIONS) : PolicyACTIONS[i] = prev_action) - 1,
     reward |-> reward,
     new |-> get_state_repr(new_state),
     done |-> 0,
     priority |-> 0]

\* learn, lines 97-112: the logging window.  The division raises exactly when
\* num_of_samples is 0 (both operands are then the int 0); the except clause
\* logs EXCEPTION and line 107 is not reached.  total: the reward total the
\* VALUE line shows, str(self.r_sum) as it is at line 100 or 105.
Bookkeeping(round, reward) ==
    IF round % LogWindow = 0
    THEN IF InMoneyTime(round)
         THEN [r_sum |-> 0, sum_of_loss |-> sum_of_loss,
               num_of_samples |-> num_of_samples, log |-> "VALUE", total |-> r_sum]
         ELSE IF num_of_samples = 0
              THEN [r_sum |-> r_sum, sum_of_loss |-> sum_of_loss,
                    num_of_samples |-> num_of_samples, log |-> "EXCEPTION", total |-> 0]
              ELSE [r_sum |-> 0, sum_of_loss |-> 0,
                    num_of_samples |-> 0, log |-> "VALUE", total |-> r_sum]
    ELSE [r_sum |-> r_sum + reward, sum_of_loss |-> sum_of_loss,
          num_of_samples |-> num_of_samples, log |-> "none", total |-> 0]

TargetStandard_LiveNetwork(tr, live, target) ==
    tr.reward + (hyper.gamma * AMax(Predict(live, tr.new))) \div 100

TargetDouble_RolesSwapped(tr, live, target) ==
    tr.reward + (hyper.gamma * Predict(live, tr.new)[ArgMax(Predict(target, tr.new))]) \div 100

\* learn, line 120: rewards + gamma * amax(old_model.predict(new))
TargetStandard(tr, live, target) ==
    tr.reward + (hyper.gamma * AMax(Predict(target, tr.new))) \div 100

\* learn, lines 117-118: rewards + gamma * old_model.predict(new)[argmax(model.predict(new))]
TargetDouble(tr, live, target) ==
    tr.reward + (hyper.gamma * Predict(target, tr.new)[ArgMax(Predict(live, tr.new))]) \div 100

TDTarget(tr, live, target) ==
    IF hyper.doubleDQN THEN TargetDouble(tr, live, target)
    ELSE TargetStandard(tr, live, target)

\* learn, lines 121 and 124: the live prediction with the taken action's slot overwritten
TargetVector(tr, live, target) ==
    [Predict(live, tr.prev) EXCEPT ![tr.action] = TDTarget(tr, live, target)]

NewPriority_NoFloor(target_f, w, tr) ==
    LET q == Predict(w, tr.prev)
        mae == SumOver([a \in ActionIdx |-> Abs(target_f[a] - q[a])], ActionIdx)
    IN  mae * 10000

\* learn, lines 130-132: the priority written back for one sample, in millionths
NewPriority(target_f, w, tr) ==
    LET q == Predict(w, tr.prev)
        mae == SumOver([a \in ActionIdx |-> Abs(target_f[a] - q[a])], ActionIdx)
    IN  mae * 10000 + PrioritizedReplayEps

AbortsCall_FitToo(path) == path \in {"sample_failed", "fit_failed"}

\* which failures leave learn by an exception: memory.sample (line 114) is
\* outside every try, fit and the priority update (lines 123-134) are inside one
AbortsCall(path) == path = "sample_failed"

\* _save_model: the target network takes the live network's weights
SaveModel(live) == live

SyncDue_EveryDecayWindow(round) == round % DecayWindow = 0 /\ round > 0

\* learn, line 136
SyncDue(round) == round % hyper.save_model_round = 0 /\ round > 0

DecayDue_AnyEpsilon(round, eps) == round % DecayWindow = 0 /\ round > 0

DecayDue_AtRoundZero(round, eps) == round % DecayWindow = 0 /\ DecPositive(eps)

\* learn, line 138
DecayDue(round, eps) == round % DecayWindow = 0 /\ round > 0 /\ DecPositive(eps)

DecayedEpsilon_NoFloor(eps) == DecMulTenths(eps, hyper.epsilon_decay)

DecayedEpsilon_CutToZero(eps) ==
    IF DecLt(DecMulTenths(eps, hyper.epsilon_decay), hyper.min_epsilon) THEN Zero
    ELSE DecMulTenths(eps, hyper.epsilon_decay)

\* learn, line 139
DecayedEpsilon(eps) ==
    DecMax(DecMulTenths(eps, hyper.epsilon_decay), hyper.min_epsilon)

NoBk == [r_sum |-> 0, sum_of_loss |-> 0, num_of_samples |-> 0, log |-> "none", total |-> 0]

NoCall ==
    [op |-> "init_run", round |-> 0, prev_state |-> None, prev_action |-> None,
     reward |-> 0, new_state |-> None, outcome |-> "returned", path |-> "none",
     action |-> None, bk |-> NoBk, idx |-> << >>, target_f |-> << >>,
     held |-> 0, oldest |-> None]

\* cast_string_args and init_run.  args: the policy arguments given;
\* ddqn, softmax: what the subclass's _additional_args leaves in doubleDQN and
\* use_softmax_sampling (False and True unless it overrides them).
InitRun(args, ddqn, softmax, w) ==
    /\ policy_args = [epsilon |-> CastEpsilon(args), gamma |-> CastGamma(args)]
    /\ hyper = [gamma |-> CastGamma(args),
                epsilon_decay |-> EpsilonDecayTenths,
                min_epsilon |-> MIN_EPSILON,
                batch_size |-> BatchSize,
                save_model_round |-> SaveModelRound,
                doubleDQN |-> ddqn,
                game_duration |-> GameDuration,
                score_scope |-> ScoreScope]
    /\ epsilon = CastEpsilon(args)
    /\ use_softmax_sampling = softmax
    /\ r_sum = 0
    /\ model = w
    /\ old_model = SaveModel(w)
    /\ memory = << >>
    /\ num_of_samples = 0
    /\ sum_of_loss = 0
    /\ running = TRUE
    /\ call = NoCall
    /\ money_time = FALSE
    /\ decays = 0
    /\ window = [inner |-> 0, edge |-> 0]

Act_CountsReward(round, prev_state, prev_action, reward, new_state, rnd, choice) ==
    LET money == InMoneyTime(round)
        soft == IF money THEN FALSE ELSE use_softmax_sampling
        eps == IF money THEN Zero ELSE epsilon
        mem == IF prev_state # None
               THEN BufferAdd(memory, Transition(prev_state, prev_action, reward, new_state))
               ELSE memory
        q == Predict(model, get_state_repr(new_state))
        path == IF soft
                THEN IF DecPositive(eps) THEN "softmax" ELSE "softmax_div0"
                ELSE IF rnd THEN "random" ELSE "greedy"
        action == CASE path = "softmax_div0" -> None
                    [] path = "greedy" -> PolicyACTIONS[ArgMax(q) + 1]
                    [] OTHER -> PolicyACTIONS[choice + 1]
    IN  /\ running
        /\ soft => ~rnd
        /\ path = "random" => DecPositive(eps)
        /\ path = "greedy" => DecLt(eps, <<1>>) /\ choice = 0
        /\ path = "softmax_div0" => choice = 0
        /\ use_softmax_sampling' = soft
        /\ epsilon' = eps
        /\ memory' = mem
        /\ money_time' = (money_time \/ money)
        /\ running' = (path # "softmax_div0")
        /\ call' = [NoCall EXCEPT !.op = "act", !.round = round,
                        !.prev_state = prev_state, !.prev_action = prev_action,
                        !.reward = reward, !.new_state = new_state,
                        !.outcome = IF path = "softmax_div0" THEN "raised" ELSE "returned",
                        !.path = path, !.action = action,
                        !.held = Len(memory),
                        !.oldest = IF memory = << >> THEN None
                                   ELSE [memory[1] EXCEPT !.priority = 0]]
        /\ r_sum' = r_sum + reward
        /\ UNCHANGED << policy_args, hyper, sum_of_loss, num_of_samples,
                        model, old_model, decays, window >>

\* act(round, prev_state, prev_action, reward, new_state, too_slow).
\* call.held, call.oldest: how many transitions the buffer held when the call
\* was made, and the oldest of them (but for its priority).
\* rnd: whether np.random.rand() < epsilon came out true; choice: the index
\* np.random.choice draws (softmax gives every action a positive probability).
Act(round, prev_state, prev_action, reward, new_state, rnd, choice) ==
    LET money == InMoneyTime(round)
        soft == IF money THEN FALSE ELSE use_softmax_sampling
        eps == IF money THEN Zero ELSE epsilon
        mem == IF prev_state # None
               THEN BufferAdd(memory, Transition(prev_state, prev_action, reward, new_state))
               ELSE memory
        q == Predict(model, get_state_repr(new_state))
        path == IF soft
                THEN IF DecPositive(eps) THEN "softmax" ELSE "softmax_div0"
                ELSE IF rnd THEN "random" ELSE "greedy"
        action == CASE path = "softmax_div0" -> None
                    [] path = "greedy" -> PolicyACTIONS[ArgMax(q) + 1]
                    [] OTHER -> PolicyACTIONS[choice + 1]
    IN  /\ running
        /\ soft => ~rnd
        /\ path = "random" => DecPositive(eps)
        /\ path = "greedy" => DecLt(eps, <<1>>) /\ choice = 0
        /\ path = "softmax_div0" => choice = 0
        /\ use_softmax_sampling' = soft
        /\ epsilon' = eps
        /\ memory' = mem
        /\ money_time' = (money_time \/ money)
        /\ running' = (path # "softmax_div0")
        /\ call' = [NoCall EXCEPT !.op = "act", !.round = round,
                        !.prev_state = prev_state, !.prev_action = prev_action,
                        !.reward = reward, !.new_state = new_state,
                        !.outcome = IF path = "softmax_div0" THEN "raised" ELSE "returned",
                        !.path = path, !.action = action,
                        !.held = Len(memory),
                        !.oldest = IF memory = << >> THEN None
                                   ELSE [memory[1] EXCEPT !.priority = 0]]
        /\ UNCHANGED << policy_args, hyper, r_sum, sum_of_loss, num_of_samples,
                        model, old_model, decays, window >>

\* learn(round, prev_state, prev_action, reward, new_state, too_slow).
\* idx: the indices memory.sample draws; path: how the training step ends;
\* w2, loss: the weights and the loss a successful fit leaves; n: how many
\* priorities update_priorities has written when it fails.
Learn(round, reward, idx, path, w2, loss, n) ==
    LET bk == Bookkeeping(round, reward)
        target_f == [i \in 1 .. Len(idx) |-> TargetVector(memory[idx[i]], model, old_model)]
        fitted == path \in {"ok", "update_failed"}
        live == IF fitted THEN w2 ELSE model
        prios == [i \in 1 .. Len(idx) |-> NewPriority(target_f[i], live, memory[idx[i]])]
        decayDue == ~money_time /\ round > 0 /\ round % DecayWindow = 0
    IN  /\ running
        /\ IF path = "sample_failed"
           THEN Len(memory) < hyper.batch_size /\ idx = << >>
           ELSE /\ Len(memory) > 0
                /\ Len(idx) = hyper.batch_size
                /\ \A i \in 1 .. Len(idx) : idx[i] \in 1 .. Len(memory)
        /\ ~fitted => w2 = model /\ loss = 0
        /\ n = (IF path = "ok" THEN Len(idx) ELSE 0) \/ (path = "update_failed" /\ n < Len(idx))
        /\ r_sum' = bk.r_sum
        /\ sum_of_loss' = (IF fitted THEN bk.sum_of_loss + loss ELSE bk.sum_of_loss)
        /\ num_of_samples' = (IF fitted THEN bk.num_of_samples + 1 ELSE bk.num_of_samples)
        /\ model' = live
        /\ memory' = UpdatePriorities(memory, SubSeq(idx, 1, n), SubSeq(prios, 1, n))
        /\ IF AbortsCall(path)
           THEN /\ running' = FALSE
                /\ UNCHANGED << old_model, epsilon, decays >>
           ELSE /\ running' = TRUE
                /\ old_model' = (IF SyncDue(round) THEN SaveModel(live) ELSE old_model)
                /\ epsilon' = (IF DecayDue(round, epsilon) THEN DecayedEpsilon(epsilon)
                               ELSE epsilon)
                /\ decays' = (IF decayDue THEN decays + 1 ELSE decays)
        /\ call' = [NoCall EXCEPT !.op = "learn", !.round = round, !.reward = reward,
                        !.outcome = IF AbortsCall(path) THEN "raised" ELSE "returned",
                        !.path = path,
                        !.bk = bk, !.idx = idx, !.target_f = target_f]
        /\ window' = (IF round % LogWindow = 0
                       THEN [inner |-> 0, edge |-> reward]
                       ELSE [window EXCEPT !.inner = @ + reward])
        /\ UNCHANGED << policy_args, hyper, use_softmax_sampling, money_time >>

\* ------------------------------------------------------------ the runs
\* The engine's calls, with their arguments drawn from the sets given.
EpsilonArgs == {"2.0", "0.5", "0.1", "0"}

\* the argument dictionaries: no option, epsilon alone, epsilon and gamma
ArgsOver(E) ==
    {[k \in {} |-> "0"]} \cup {[k \in {"epsilon"} |-> e] : e \in E}
        \cup {[k \in {"epsilon", "gamma"} |-> IF k = "epsilon" THEN e ELSE "0.75"] : e \in E}

AllBatches == [1 .. BatchSize -> 1 .. Len(memory)]
OldestOnly == {[i \in 1 .. BatchSize |-> 1]}

\* the run is followed while its counters stay within the bounds; act is
\* followed while at most maxStored transitions are stored
Within(maxDecays) ==
    /\ r_sum' <= MaxRSum
    /\ num_of_samples' <= MaxSamples
    /\ decays' <= maxDecays

ActStep(R, PS, PA, RW, NS, CH, maxStored) ==
    \E round \in R, prev_state \in PS, new_state \in NS, rnd \in BOOLEAN, choice \in CH :
        \E prev_action \in (IF prev_state = None THEN {None} ELSE PA),
           reward \in (IF prev_state = None THEN {0} ELSE RW) :
            /\ Act(round, prev_state, prev_action, reward, new_state, rnd, choice)
            /\ Len(memory') <= maxStored

LearnOk(R, RW, B, W, L, maxDecays) ==
    \E round \in R, reward \in RW, idx \in B, w2 \in W, loss \in L :
        Learn(round, reward, idx, "ok", w2, loss, Len(idx)) /\ Within(maxDecays)

LearnFitFails(R, RW, B, maxDecays) ==
    \E round \in R, reward \in RW, idx \in B :
        Learn(round, reward, idx, "fit_failed", model, 0, 0) /\ Within(maxDecays)

LearnUpdateFails(R, RW, B, W, L, maxDecays) ==
    \E round \in R, reward \in RW, idx \in B, w2 \in W, loss \in L, n \in 0 .. (BatchSize - 1) :
        Learn(round, reward, idx, "update_failed", w2, loss, n) /\ Within(maxDecays)

LearnSampleFails(R, RW) ==
    \E round \in R, reward \in RW :
        Learn(round, reward, << >>, "sample_failed", model, 0, 0) /\ Within(MaxDecays)

\* Runs that vary the exploration schedule: every initial epsilon, softmax or
\* epsilon-greedy from the start, rounds before and inside money-time.
InitEps ==
    \E args \in ArgsOver(EpsilonArgs), softmax \in BOOLEAN :
        InitRun(args, FALSE, softmax, 0)

NextEps ==
    \/ ActStep({1, 4001}, {None, "A"}, {"L"}, {0}, {"A"}, {0}, FewStored)
    \/ LearnOk({0, 200, 250, 4200}, {0}, OldestOnly, {0}, {50}, MaxDecays)
    \/ LearnFitFails({0, 200, 250, 4200}, {0}, OldestOnly, MaxDecays)
    \/ LearnUpdateFails({0, 200, 250, 4200}, {0}, OldestOnly, {0}, {50}, MaxDecays)
    \/ LearnSampleFails({0, 200, 250, 4200}, {0})

SpecEps == InitEps /\ [][NextEps]_vars

\* Runs that vary the weights: any result of a fit, rounds that sync, that
\* sync and decay, or do neither, before and inside money-time.
InitSync ==
    \E softmax \in BOOLEAN :
        InitRun([k \in {} |-> "0"], FALSE, softmax, 0)

NextSync ==
    \/ ActStep({1, 4001}, {None, "A"}, {"L"}, {0}, {"A"}, {0}, FewStored)
    \/ LearnOk({250, 1000, 4200}, {0}, OldestOnly, {0, 1}, {50}, FewDecays)
    \/ LearnFitFails({250, 1000, 4200}, {0}, OldestOnly, FewDecays)
    \/ LearnUpdateFails({250, 1000, 4200}, {0}, OldestOnly, {0, 1}, {50}, FewDecays)
    \/ LearnSampleFails({250, 1000, 4200}, {0})

SpecSync == InitSync /\ [][NextSync]_vars

\* Runs that vary the logging window: rewards, losses, failed fits, rounds on
\* a 100-round boundary before and inside money-time.
InitStats == InitRun([k \in {} |-> "0"], FALSE, TRUE, 0)

NextStats ==
    \/ ActStep({1}, {None, "A"}, {"L"}, {0}, {"A"}, {0}, FewStored)
    \/ LearnOk({1, 100, 4100}, {0, 100}, OldestOnly, {0}, {0, 50}, FewDecays)
    \/ LearnFitFails({1, 100, 4100}, {0, 100}, OldestOnly, FewDecays)
    \/ LearnUpdateFails({1, 100, 4100}, {0, 100}, OldestOnly, {0}, {0, 50}, FewDecays)
    \/ LearnSampleFails({1, 100, 4100}, {0, 100})

SpecStats == InitStats /\ [][NextStats]_vars

\* Runs that vary what act is given: with and without a previous state, two
\* actions, before and inside money-time, in each mode of action selection,
\* until the buffer is full and evicts.
InitAct ==
    \E args \in {[k \in {} |-> "0"], [k \in {"epsilon"} |-> "0"]}, softmax \in BOOLEAN :
        InitRun(args, FALSE, softmax, 0)

NextAct ==
    \/ ActStep({1, 4001}, {None, "B"}, {"L", "F"}, {100}, {"A"}, {0}, BUFFER_SIZE)
    \/ LearnOk({1}, {0}, OldestOnly, {0}, {50}, FewDecays)
    \/ LearnFitFails({1}, {0}, OldestOnly, FewDecays)
    \/ LearnUpdateFails({1}, {0}, OldestOnly, {0}, {50}, FewDecays)
    \/ LearnSampleFails({1}, {0})

SpecAct == InitAct /\ [][NextAct]_vars

\* Runs that vary the training batch: a stored transition over two actions
\* and both next states, every batch of stored indices, live and target
\* weights apart, with and without double DQN.
InitTarget ==
    \E ddqn \in BOOLEAN, w \in Weights :
        InitRun([k \in {} |-> "0"], ddqn, TRUE, w)

NextTarget ==
    \/ ActStep({1}, {None, "A"}, {"L", "F"}, {100}, RawStates, {0}, FewStored)
    \/ LearnOk({1}, {0}, AllBatches, Weights, {50}, FewDecays)
    \/ LearnFitFails({1}, {0}, AllBatches, FewDecays)
    \/ LearnUpdateFails({1}, {0}, OldestOnly, {0}, {50}, FewDecays)
    \/ LearnSampleFails({1}, {0})

SpecTarget == InitTarget /\ [][NextTarget]_vars

\* Runs that fill the buffer and go on: four different transitions recorded
\* in any order, training in between.
InitBuffer == InitRun([k \in {} |-> "0"], FALSE, TRUE, 0)

NextBuffer ==
    \/ ActStep({1}, {None, "A"}, {"L", "F"}, {100}, RawStates, {0}, BUFFER_SIZE)
    \/ LearnOk({1}, {0}, OldestOnly, {0}, {50}, FewDecays)
    \/ LearnFitFails({1}, {0}, OldestOnly, FewDecays)
    \/ LearnUpdateFails({1}, {0}, OldestOnly, {0}, {50}, FewDecays)
    \/ LearnSampleFails({1}, {0})

SpecBuffer == InitBuffer /\ [][NextBuffer]_vars

\* Runs that go round by round as the game does: act and then learn are
\* called once in every round, from round 0 on, with any of two rewards.
ThisRound == IF call.op = "init_run" THEN 0 ELSE call.round + 1

InitWindow == InitRun([k \in {} |-> "0"], FALSE, TRUE, 0)

NextWindow ==
    \/ /\ call.op # "act"
       /\ ThisRound <= MaxRound
       /\ ActStep({ThisRound}, {None, "A"}, {"L"}, {0}, {"A"}, {0}, FewStored)
    \/ call.op = "act" /\ LearnOk({call.round}, {0, 100}, OldestOnly, {0}, {50}, FewDecays)
    \/ call.op = "act" /\ LearnFitFails({call.round}, {0, 100}, OldestOnly, FewDecays)
    \/ call.op = "act" /\ LearnUpdateFails({call.round}, {0, 100}, OldestOnly, {0}, {50}, FewDecays)
    \/ call.op = "act" /\ LearnSampleFails({call.round}, {0, 100})

SpecWindow == InitWindow /\ [][NextWindow]_vars

\* ---------------------------------------------------------------- claims
LearnReturned == call.op = "learn" /\ call.outcome = "returned"
ConfiguredAtLeastMin == DecLeq(MIN_EPSILON, policy_args.epsilon)

\* C1 as stated: from one call to the next epsilon never increases, and after
\* every call it is at least min_epsilon (0.33), for every configured initial
\* epsilon.
C1_NeverBelowMinEpsilon ==
    [][DecLeq(epsilon', epsilon) /\ DecLeq(MIN_EPSILON, epsilon')]_vars

\* C1 as amended: for every configured initial epsilon >= min_epsilon, epsilon
\* never increases from one call to the next, and after every call it is
\* either >= min_epsilon or exactly 0, the latter only once an act call with
\* round > game_duration - score_scope has been made.
C1_NonIncreasingFloorOrZero ==
    [][ConfiguredAtLeastMin =>
          /\ DecLeq(epsilon', epsilon)
          /\ \/ DecLeq(MIN_EPSILON, epsilon')
             \/ money_time' /\ epsilon' = Zero]_vars

\* the floor was reached from 0.5, then money-time set epsilon to 0, and a
\* decay-due learn call left it there
C1_Witness ==
    /\ policy_args.epsilon = <<0, 5>>
    /\ decays >= 4
    /\ money_time
    /\ epsilon = Zero
    /\ LearnReturned /\ call.round = 4200

\* epsilon0 * 0.9^k, exactly
RECURSIVE DecayPow(_, _)
DecayPow(e, k) == IF k = 0 THEN e ELSE DecayPow(DecMulTenths(e, 9), k - 1)

\* C7: with an initial epsilon >= min_epsilon and before money-time, a learn
\* call that returns replaces epsilon by max(epsilon * 0.9, 0.33) when
\* round > 0 and round % 200 = 0 and leaves it unchanged otherwise (round 0
\* included), so that after k such calls epsilon = max(epsilon0 * 0.9^k, 0.33).
\* (A learn call that memory.sample aborts ends the run before line 138.)
C7_DecayEvery200Rounds ==
    /\ [](ConfiguredAtLeastMin /\ ~money_time =>
             epsilon = DecMax(DecayPow(policy_args.epsilon, decays), MIN_EPSILON))
    /\ [][(ConfiguredAtLeastMin /\ ~money_time /\ LearnReturned') =>
             epsilon' = IF call'.round > 0 /\ call'.round % 200 = 0
                        THEN DecMax(DecMulTenths(epsilon, 9), MIN_EPSILON)
                        ELSE epsilon]_vars

\* ten decays from 2.0: 2.0 * 0.9^10 = 0.6973568802
C7_Witness ==
    /\ policy_args.epsilon = <<2>>
    /\ ~money_time
    /\ decays = 10
    /\ LearnReturned /\ call.round = 200
    /\ epsilon = <<0, 6, 9, 7, 3, 5, 6, 8, 8, 0, 2>>

\* exploration is off: the greedy branch of act is the only one left
Greedy == ~use_softmax_sampling /\ epsilon = Zero
ActCalled == call.op = "act"
MoneyRound(round) == round > GameDuration - ScoreScope

\* C2: once act has been called with round > game_duration - score_scope,
\* use_softmax_sampling stays False and epsilon stays 0 under every later
\* act and learn call, whatever its round, and every act call from that one
\* on returns the argmax of the live network's prediction for new_state.
C2_GreedyAfterMoneyTime ==
    [][/\ (ActCalled' /\ MoneyRound(call'.round)) => (money_time' /\ Greedy')
       /\ money_time => (Greedy /\ Greedy' /\ money_time')
       /\ (money_time' /\ ActCalled') =>
              /\ call'.outcome = "returned"
              /\ call'.path = "greedy"
              /\ call'.action =
                    PolicyACTIONS[ArgMax(Predict(model', get_state_repr(call'.new_state))) + 1]]_vars

\* a greedy act call at a round outside the window, after money-time began
\* and after training changed the live weights
C2_Witness ==
    /\ money_time
    /\ ActCalled /\ call.round = 1 /\ call.path = "greedy"
    /\ model # old_model
    /\ decays > 0

\* C3: the target weights change only in a learn call that returns with
\* round > 0 and round % save_model_round = 0, at whose end they equal the
\* live weights as that call's fit left them; every other call leaves them
\* as the last sync set them, whatever training it does.
C3_TargetIsLaggedCopy ==
    [][/\ old_model' # old_model =>
              (LearnReturned' /\ call'.round > 0 /\ call'.round % 250 = 0)
       /\ (LearnReturned' /\ call'.round > 0 /\ call'.round % 250 = 0) =>
              old_model' = model']_vars

\* the target holds weights that a sync copied after a fit had changed them,
\* and later training at a round that does not sync has left it behind
C3_Witness ==
    /\ LearnReturned /\ call.round = 4200 /\ call.path = "ok"
    /\ old_model = 1
    /\ model = 0

\* C5: a learn call whose fit or whose priority update fails returns
\* normally and still syncs the target network (round > 0, round % 250 = 0)
\* and decays epsilon (round > 0, round % 200 = 0, epsilon > 0) as a
\* successful call does; when fit itself fails the training step leaves
\* sum_of_loss and num_of_samples as the logging block left them.
C5_TrainingFailureIsCaught ==
    [][(call'.op = "learn" /\ call'.path \in {"fit_failed", "update_failed"}) =>
          LET round == call'.round
              reset == round % 100 = 0 /\ ~MoneyRound(round) /\ num_of_samples > 0
          IN  /\ call'.outcome = "returned" /\ running'
              /\ old_model' = IF round > 0 /\ round % 250 = 0 THEN model' ELSE old_model
              /\ epsilon' = IF round > 0 /\ round % 200 = 0 /\ DecPositive(epsilon)
                            THEN DecMax(DecMulTenths(epsilon, 9), MIN_EPSILON)
                            ELSE epsilon
              /\ call'.path = "fit_failed" =>
                    /\ model' = model
                    /\ sum_of_loss' = IF reset THEN 0 ELSE sum_of_loss
                    /\ num_of_samples' = IF reset THEN 0 ELSE num_of_samples]_vars

\* a failed fit at a round that syncs and decays, after which the run goes on
C5_Witness ==
    /\ call.op = "learn" /\ call.path = "fit_failed" /\ call.round = 1000
    /\ call.outcome = "returned" /\ running
    /\ decays = 1
    /\ epsilon = <<1, 8>>
    /\ num_of_samples = 0

\* C4 as stated: when the logging block of a learn call fails and EXCEPTION is
\* logged, r_sum is 0 when the call goes on to the training step.
C4_ResetSurvivesFailure ==
    (call.op = "learn" /\ call.bk.log = "EXCEPTION") => call.bk.r_sum = 0

\* C10 as stated: after the logging block of every learn call with
\* round % 100 = 0, before or inside money-time, r_sum, sum_of_loss and
\* num_of_samples are all 0 when the training step starts.
C10_WindowResetEvery100 ==
    (call.op = "learn" /\ call.round % 100 = 0) =>
        (call.bk.r_sum = 0 /\ call.bk.sum_of_loss = 0 /\ call.bk.num_of_samples = 0)

\* the transition an act call is to record, but for its priority
Recorded(c) ==
    [prev |-> get_state_repr(c.prev_state),
     action |-> CASE c.prev_action = "L" -> 0 [] c.prev_action = "R" -> 1
                  [] c.prev_action = "F" -> 2,
     reward |-> c.reward,
     new |-> get_state_repr(c.new_state),
     done |-> 0]

Stored(e) ==
    [prev |-> e.prev, action |-> e.action, reward |-> e.reward, new |-> e.new,
     done |-> e.done]

\* C6: an act call with a previous state adds exactly one transition, the
\* encoded previous state, the index of prev_action in the action set, the
\* reward, the encoded new state and the flag 0, as the newest entry (also
\* when the choice of the action then fails); an act call without one leaves
\* the buffer as it is; no stored transition ever has a flag other than 0.
C6_ActRecordsOneTransition ==
    [][/\ ActCalled' =>
              IF call'.prev_state = None THEN memory' = memory
              ELSE LET n == Len(memory')
                       kept == IF Len(memory) < BUFFER_SIZE THEN memory ELSE Tail(memory)
                   IN  /\ n = Len(kept) + 1
                       /\ SubSeq(memory', 1, n - 1) = kept
                       /\ Stored(memory'[n]) = Recorded(call')
       /\ \A k \in 1 .. Len(memory') : memory'[k].done = 0]_vars

\* inside money-time, a full buffer takes the transition (B, F, 1.0, A)
C6_Witness ==
    /\ ActCalled /\ call.round = 4001 /\ call.path = "greedy"
    /\ call.prev_state = "B" /\ call.prev_action = "F" /\ call.new_state = "A"
    /\ Len(memory) = BUFFER_SIZE
    /\ Stored(memory[Len(memory)]) =
           [prev |-> 2, action |-> 2, reward |-> 100, new |-> 1, done |-> 0]

FitCalled == call.op = "learn" /\ call.path # "sample_failed"
MaxQ(w, s) == CHOOSE v \in {Predict(w, s)[a] : a \in ActionIdx} :
                  \A a \in ActionIdx : Predict(w, s)[a] <= v

\* C8: without double DQN, the target vector fit is given for each sampled
\* transition is the live network's prediction for its prev_state, but for
\* the slot of its action, which holds reward + gamma * the largest Q-value
\* of the target network for its next state; the stored flag is not used.
C8_StandardTarget ==
    [][(FitCalled' /\ ~hyper.doubleDQN) =>
          \A i \in 1 .. Len(call'.idx) :
              LET tr == memory[call'.idx[i]]
              IN  \A a \in ActionIdx :
                      call'.target_f[i][a] =
                          IF a = tr.action
                          THEN tr.reward + (hyper.gamma * MaxQ(old_model, tr.new)) \div 100
                          ELSE Predict(model, tr.prev)[a]]_vars

\* reward 1.0, gamma 0.75 and a largest target Q-value of 2.0 give 2.5, with
\* live and target weights apart
C8_Witness ==
    /\ FitCalled /\ call.path = "fit_failed" /\ ~hyper.doubleDQN
    /\ hyper.gamma = 75
    /\ model # old_model
    /\ \E i \in 1 .. Len(call.idx) :
           LET tr == memory[call.idx[i]]
           IN  /\ tr.reward = 100
               /\ MaxQ(old_model, tr.new) = 200
               /\ MaxQ(model, tr.new) # 200
               /\ call.target_f[i][tr.action] = 250

\* the live network's greedy action for a state: the first of the largest
FirstBest(w, s) ==
    CHOOSE a \in ActionIdx :
        /\ Predict(w, s)[a] = MaxQ(w, s)
        /\ \A b \in 0 .. (a - 1) : Predict(w, s)[b] # MaxQ(w, s)

\* C9: with double DQN, the TD target of each sampled transition is
\* reward + gamma * Q_target(next_state, a*), a* being the live network's
\* greedy action for next_state.
C9_DoubleTarget ==
    [][(FitCalled' /\ hyper.doubleDQN) =>
          \A i \in 1 .. Len(call'.idx) :
              LET tr == memory[call'.idx[i]]
              IN  call'.target_f[i][tr.action] =
                      tr.reward
                        + (hyper.gamma * Predict(old_model, tr.new)[FirstBest(model, tr.new)])
                              \div 100]_vars

\* the live network's greedy action is not the target network's, and the
\* target's value of it is below the target's own maximum
C9_Witness ==
    /\ FitCalled /\ call.path = "fit_failed" /\ hyper.doubleDQN
    /\ \E i \in 1 .. Len(call.idx) :
           LET tr == memory[call.idx[i]]
               best == FirstBest(model, tr.new)
           IN  /\ best # FirstBest(old_model, tr.new)
               /\ Predict(old_model, tr.new)[best] < MaxQ(old_model, tr.new)
               /\ call.target_f[i][tr.action] =
                      tr.reward + (75 * Predict(old_model, tr.new)[best]) \div 100

\* C11 as stated, in either reading of "the last 100 rounds": the reward
\* total that a learn call with round > 0 and round % 100 = 0 logs is the sum
\* of the rewards passed to learn in the 100 rounds that end with this call,
\* or in the 100 rounds before it.
C11_LoggedTotalCountsEveryReward ==
    [][(call'.op = "learn" /\ call'.round > 0 /\ call'.bk.log = "VALUE") =>
          \/ call'.bk.total = window.inner + call'.reward
          \/ call'.bk.total = window.edge + window.inner]_vars

\* the prediction error of the i-th sample of the last learn call, in
\* hundredths: |target vector - prediction of the weights w|, summed over
\* the actions
ErrorOf(c, tr, w) ==
    SumOver([a \in ActionIdx |-> Abs(c.target_f[a] - Predict(w, tr.prev)[a])], ActionIdx)

\* C12: every priority a learn call writes to the buffer is, for a sampled
\* index, the prediction error of that sample against the live network as
\* the fit left it, summed over the actions, plus 1e-6; a call whose
\* training step succeeds writes one for every sampled index; every stored
\* priority is > 0 and every written one >= 1e-6.
C12_WrittenPrioritiesPositive ==
    [][call'.op = "learn" =>
          LET Written(i) ==
                  10000 * ErrorOf([target_f |-> call'.target_f[i]],
                                  memory[call'.idx[i]], model') + 1
          IN  /\ Len(memory') = Len(memory)
              /\ \A k \in 1 .. Len(memory') : memory'[k].priority > 0
              /\ call'.path = "ok" =>
                     \A i \in 1 .. Len(call'.idx) :
                         memory'[call'.idx[i]].priority = Written(i)
              /\ \A k \in 1 .. Len(memory) :
                     memory'[k].priority # memory[k].priority =>
                         \E i \in 1 .. Len(call'.idx) :
                             /\ call'.idx[i] = k
                             /\ memory'[k].priority = Written(i)
                             /\ memory'[k].priority >= 1]_vars

\* a fit that leaves no prediction error: the priority written is the floor
C12_Witness ==
    /\ call.op = "learn" /\ call.path = "ok"
    /\ ErrorOf([target_f |-> call.target_f[1]], memory[call.idx[1]], model) = 0
    /\ memory[call.idx[1]].priority = 1

\* a stored transition, written as act is given it
Tr(prev, action, new) ==
    [prev |-> get_state_repr(prev),
     action |-> CASE action = "L" -> 0 [] action = "R" -> 1 [] action = "F" -> 2,
     reward |-> 100, new |-> get_state_repr(new), done |-> 0]

\* C13: the buffer never holds more than BUFFER_SIZE transitions; once it
\* holds BUFFER_SIZE, every act and learn call leaves it holding BUFFER_SIZE,
\* and an act call that records a transition drops the oldest one, keeps the
\* others in their order and puts the new one last.
C13_BufferBoundedEvictsOldest ==
    /\ [](Len(memory) <= BUFFER_SIZE)
    /\ [][Len(memory) = BUFFER_SIZE =>
             /\ Len(memory') = BUFFER_SIZE
             /\ (ActCalled' /\ call'.prev_state # None) =>
                    /\ \A k \in 1 .. (BUFFER_SIZE - 1) : memory'[k] = memory[k + 1]
                    /\ Stored(memory'[BUFFER_SIZE]) = Recorded(call')]_vars

\* capacity 3: A, B, C, D recorded in this order leave B, C, D
C13_Witness ==
    /\ ActCalled /\ call.held = 3 /\ BUFFER_SIZE = 3
    /\ Stored(call.oldest) = Tr("A", "L", "A")
    /\ Len(memory) = 3
    /\ Stored(memory[1]) = Tr("A", "L", "B")
    /\ Stored(memory[2]) = Tr("A", "F", "A")
    /\ Stored(memory[3]) = Tr("A", "F", "B")

\* C14: in a run configured with an initial epsilon > 0, epsilon is > 0
\* whenever use_softmax_sampling is True, epsilon is 0 only after a money-time
\* act call has switched softmax sampling off, and no act call divides the
\* Q-values by an epsilon of 0.
C14_SoftmaxTemperaturePositive ==
    DecPositive(policy_args.epsilon) =>
        /\ use_softmax_sampling => DecPositive(epsilon)
        /\ epsilon = Zero => (money_time /\ ~use_softmax_sampling)
        /\ ~(ActCalled /\ call.path = "softmax_div0")

\* a softmax act call with epsilon on its floor, reached by decay from 0.5
C14_Witness ==
    /\ policy_args.epsilon = <<0, 5>>
    /\ ActCalled /\ call.path = "softmax" /\ call.outcome = "returned"
    /\ use_softmax_sampling
    /\ decays >= 4
    /\ epsilon = MIN_EPSILON

\* C15: an act call leaves the live and the target weights, r_sum,
\* sum_of_loss and num_of_samples as they are; a learn call leaves
\* use_softmax_sampling, the number of stored transitions and each stored
\* transition, but for its priority, as they are; neither changes gamma,
\* epsilon_decay, min_epsilon, batch_size, save_model_round or doubleDQN.
C15_FrameOfActAndLearn ==
    [][/\ ActCalled' =>
              /\ model' = model /\ old_model' = old_model
              /\ r_sum' = r_sum /\ sum_of_loss' = sum_of_loss
              /\ num_of_samples' = num_of_samples
       /\ call'.op = "learn" =>
              /\ use_softmax_sampling' = use_softmax_sampling
              /\ Len(memory') = Len(memory)
              /\ \A k \in 1 .. Len(memory) : Stored(memory'[k]) = Stored(memory[k])
       /\ hyper'.gamma = hyper.gamma
       /\ hyper'.epsilon_decay = hyper.epsilon_decay
       /\ hyper'.min_epsilon = hyper.min_epsilon
       /\ hyper'.batch_size = hyper.batch_size
       /\ hyper'.save_model_round = hyper.save_model_round
       /\ hyper'.doubleDQN = hyper.doubleDQN]_vars

\* an act call after a learn call has trained the live network away from
\* the target, counted a loss and rewritten the priority of the stored
\* transition
C15_Witness ==
    /\ ActCalled /\ call.outcome = "returned"
    /\ model # old_model
    /\ num_of_samples = 1 /\ sum_of_loss = 50
    /\ Len(memory) = 1
    /\ memory[1].priority # InitialPriority
    /\ Stored(memory[1]) = Tr("A", "F", "B")
    /\ hyper.doubleDQN

====
